---- MODULE Spec2Model ----
(***************************************************************************)
(* A model of src/githubapi.py: the GitHubAPI client (get_file, set_file,  *)
(* del_file, list_dir, create_dir, del_dir, is_file, move_file) talking to *)
(* the remote contents store, one HTTP request per step.                   *)
(*                                                                         *)
(* Python strings built with f-strings are modelled as sequences of text   *)
(* fragments; the fragments are cut so that the words the code searches    *)
(* for with `in` ("Success", "not found") are always whole fragments, and  *)
(* `word in text` is fragment membership.  HTTP status codes are the       *)
(* strings "200", "404", ... (they only ever are compared and printed).    *)
(* Commit messages are not modelled: the store's contents do not depend on *)
(* them and the client never reads them back.                              *)
(***************************************************************************)
EXTENDS Integers, Sequences, FiniteSets, TLC

\* ------------------------------------------------------------------ bounds
\* Longest payload (in bytes) a caller passes or the store initially holds.
MaxLen == 1
\* Number of client calls in one behaviour.
MaxCalls == 2

\* ------------------------------------------------------------ input universe
\* Byte values payloads are built from: 72 is ASCII "H", 255 (0xFF) can occur
\* in no valid UTF-8 text.
ByteVals == {72, 255}

RECURSIVE SeqsUpTo(_, _)
SeqsUpTo(S, n) ==
    IF n = 0 THEN {<<>>}
    ELSE LET shorter == SeqsUpTo(S, n - 1)
         IN  shorter \cup {Append(s, x) : s \in {t \in shorter : Len(t) = n - 1}, x \in S}

Payloads == SeqsUpTo(ByteVals, MaxLen)

\* Paths are the repository-relative path strings split at "/": "a/b" is
\* <<"a", "b">>, "a/b/" is <<"a", "b", "">>, the root "" is <<>>.
Root == <<>>
Paths == { <<"a">>, <<"a", ".gitkeep">>, <<"a", "b">>, <<"a", "b", ".gitkeep">> }
\* Directory arguments of create_dir / del_dir (one with a trailing slash).
DirArgs == { <<"a">>, <<"a", "b">>, <<"a", "b", "">> }
\* Arguments of list_dir.
ListArgs == Paths \cup {Root}

\* ------------------------------------------------------------------ base64
B64Alphabet ==
    << "A","B","C","D","E","F","G","H","I","J","K","L","M","N","O","P",
       "Q","R","S","T","U","V","W","X","Y","Z","a","b","c","d","e","f",
       "g","h","i","j","k","l","m","n","o","p","q","r","s","t","u","v",
       "w","x","y","z","0","1","2","3","4","5","6","7","8","9","+","/" >>

B64Char(n) == B64Alphabet[n + 1]
B64Index(ch) == (CHOOSE i \in 1..Len(B64Alphabet) : B64Alphabet[i] = ch) - 1
IsB64Char(ch) == \E i \in 1..Len(B64Alphabet) : B64Alphabet[i] = ch

\* base64.b64encode: three bytes become four characters, "=" pads the last group.
RECURSIVE b64encode(_)
b64encode(bs) ==
    IF Len(bs) = 0 THEN <<>>
    ELSE IF Len(bs) = 1 THEN
        << B64Char(bs[1] \div 4), B64Char((bs[1] % 4) * 16), "=", "=" >>
    ELSE IF Len(bs) = 2 THEN
        << B64Char(bs[1] \div 4),
           B64Char(((bs[1] % 4) * 16) + (bs[2] \div 16)),
           B64Char((bs[2] % 16) * 4), "=" >>
    ELSE
        << B64Char(bs[1] \div 4),
           B64Char(((bs[1] % 4) * 16) + (bs[2] \div 16)),
           B64Char(((bs[2] % 16) * 4) + (bs[3] \div 64)),
           B64Char(bs[3] % 64) >> \o b64encode(SubSeq(bs, 4, Len(bs)))

\* The characters of the base64 alphabet in a text: b64decode (validate=False)
\* discards everything else (the newlines the store embeds) before decoding,
\* and stops at the padding.
RECURSIVE B64Sextets(_)
B64Sextets(cs) ==
    IF Len(cs) = 0 \/ cs[1] = "=" THEN <<>>
    ELSE IF IsB64Char(cs[1]) THEN <<B64Index(cs[1])>> \o B64Sextets(Tail(cs))
    ELSE B64Sextets(Tail(cs))

RECURSIVE B64Bytes(_)
B64Bytes(ss) ==
    IF Len(ss) < 2 THEN <<>>
    ELSE IF Len(ss) = 2 THEN << (ss[1] * 4) + (ss[2] \div 16) >>
    ELSE IF Len(ss) = 3 THEN
        << (ss[1] * 4) + (ss[2] \div 16), ((ss[2] % 16) * 16) + (ss[3] \div 4) >>
    ELSE
        << (ss[1] * 4) + (ss[2] \div 16),
           ((ss[2] % 16) * 16) + (ss[3] \div 4),
           ((ss[3] % 4) * 64) + ss[4] >> \o B64Bytes(SubSeq(ss, 5, Len(ss)))

b64decode(cs) == B64Bytes(B64Sextets(cs))

\* ------------------------------------------------------------------- UTF-8
IsCont(b) == b >= 128 /\ b <= 191
\* Length of the UTF-8 sequence a lead byte opens; 0 for a byte that opens none.
Utf8Width(b) ==
    IF b < 128 THEN 1
    ELSE IF b >= 194 /\ b <= 223 THEN 2
    ELSE IF b >= 224 /\ b <= 239 THEN 3
    ELSE IF b >= 240 /\ b <= 244 THEN 4
    ELSE 0

RECURSIVE Utf8Valid(_)
Utf8Valid(bs) ==
    IF Len(bs) = 0 THEN TRUE
    ELSE LET w == Utf8Width(bs[1])
         IN  /\ w > 0
             /\ Len(bs) >= w
             /\ \A i \in 2..w : IsCont(bs[i])
             /\ Utf8Valid(SubSeq(bs, w + 1, Len(bs)))

RECURSIVE Utf8Point(_, _, _)
Utf8Point(bs, i, acc) ==
    IF i > Len(bs) THEN acc ELSE Utf8Point(bs, i + 1, (acc * 64) + (bs[i] % 64))

\* bytes.decode('utf-8') of a valid sequence: its code points.
RECURSIVE Utf8Decode(_)
Utf8Decode(bs) ==
    IF Len(bs) = 0 THEN <<>>
    ELSE LET w == Utf8Width(bs[1])
             lead == IF w = 1 THEN bs[1]
                     ELSE IF w = 2 THEN bs[1] % 32
                     ELSE IF w = 3 THEN bs[1] % 16
                     ELSE bs[1] % 8
         IN  << Utf8Point(SubSeq(bs, 2, w), 1, lead) >>
                 \o Utf8Decode(SubSeq(bs, w + 1, Len(bs)))

\* str.encode('utf-8'): code points below 128 are one byte, below 2048 two.
RECURSIVE Utf8Encode(_)
Utf8Encode(cps) ==
    IF Len(cps) = 0 THEN <<>>
    ELSE (IF cps[1] < 128 THEN << cps[1] >>
          ELSE << 192 + (cps[1] \div 64), 128 + (cps[1] % 64) >>)
         \o Utf8Encode(Tail(cps))

\* ------------------------------------------------------------------- texts
\* `word in text` for the words the code searches for.
Contains(text, word) == \E i \in 1..Len(text) : text[i] = word

\* A path as it is printed inside an f-string: its segments joined by "/".
RECURSIVE PathText(_)
PathText(p) ==
    IF Len(p) = 0 THEN <<>>
    ELSE IF Len(p) = 1 THEN << p[1] >>
    ELSE << p[1], "/" >> \o PathText(Tail(p))

\* str.rstrip('/') on a path: the trailing empty segments go.
RECURSIVE rstrip(_)
rstrip(p) ==
    IF Len(p) > 0 /\ p[Len(p)] = "" THEN rstrip(SubSeq(p, 1, Len(p) - 1)) ELSE p

\* --------------------------------------------------------- the remote store
\* The version token of a file is the store's hash of its content (modelled
\* as the content itself: an injective hash); NoSha is Python's None.
NoSha == [some |-> FALSE, blob |-> <<>>]
ShaOf(content) == [some |-> TRUE, blob |-> content]

NoFile == [exists |-> FALSE, content |-> <<>>]
FileOf(content) == [exists |-> TRUE, content |-> content]

IsPrefix(p, q) == Len(p) < Len(q) /\ SubSeq(q, 1, Len(p)) = p
IsFileAt(s, p) == p \in Paths /\ s[p].exists
IsDirAt(s, p) == \E q \in Paths : s[q].exists /\ IsPrefix(p, q)
\* A store is a tree: no file lies below another file.
WellFormed(s) == \A p \in Paths : s[p].exists => ~IsDirAt(s, p)
Stores == { s \in [Paths -> {NoFile} \cup {FileOf(c) : c \in Payloads}] : WellFormed(s) }

\* The JSON body of a response, with every key the client reads; "" and <<>>
\* stand for a key the body does not hold.
EmptyBody ==
    [ isList |-> FALSE, type |-> "", content |-> <<>>, sha |-> NoSha,
      entries |-> <<>>, message |-> <<>>, ctype |-> "" ]
ErrorResponse(status, message) ==
    [ status |-> status, body |-> [EmptyBody EXCEPT !.message = message] ]

\* The store lists a directory's entries in name order.
NameOrder == << ".gitkeep", "a", "b" >>
ChildType(s, p, n) ==
    IF IsFileAt(s, Append(p, n)) THEN "file"
    ELSE IF IsDirAt(s, Append(p, n)) THEN "dir" ELSE ""
Listing(s, p) ==
    LET F[i \in 0..Len(NameOrder)] ==
            IF i = 0 THEN <<>>
            ELSE IF ChildType(s, p, NameOrder[i]) = "" THEN F[i - 1]
            ELSE Append(F[i - 1], [name |-> NameOrder[i], type |-> ChildType(s, p, NameOrder[i])])
    IN  F[Len(NameOrder)]

\* GET <path>: a file object (base64 content with the newline the store
\* appends, and the version token), a directory listing, or 404.
StoreGet(s, p) ==
    IF IsFileAt(s, p) THEN
        [ status |-> "200",
          body |-> [EmptyBody EXCEPT !.type = "file",
                                     !.content = b64encode(s[p].content) \o << "\n" >>,
                                     !.sha = ShaOf(s[p].content)] ]
    ELSE IF IsDirAt(s, p) THEN
        [ status |-> "200",
          body |-> [EmptyBody EXCEPT !.isList = TRUE, !.entries = Listing(s, p)] ]
    ELSE ErrorResponse("404", << "Not Found" >>)

\* PUT <path> {content, sha?}: creates (201) or updates (200) the file.  The
\* store rejects a write without the current version token of an existing
\* file (422 none given, 409 a stale one), a token for a file that is not
\* there (409), and a path that is a directory or lies below a file (422).
StorePut(s, p, content_b64, sha) ==
    IF p \notin Paths \/ IsDirAt(s, p) \/ (\E q \in Paths : s[q].exists /\ IsPrefix(q, p)) THEN
        [ resp |-> ErrorResponse("422", << "Invalid request: path conflict" >>), store |-> s ]
    ELSE IF s[p].exists /\ ~sha.some THEN
        [ resp |-> ErrorResponse("422", << "Invalid request: sha wasn't supplied" >>), store |-> s ]
    ELSE IF sha.some /\ (~s[p].exists \/ sha # ShaOf(s[p].content)) THEN
        [ resp |-> ErrorResponse("409", << "sha does not match" >>), store |-> s ]
    ELSE
        [ resp |-> [ status |-> IF s[p].exists THEN "200" ELSE "201",
                     body |-> [EmptyBody EXCEPT !.ctype = "file",
                                                !.sha = ShaOf(b64decode(content_b64))] ],
          store |-> [s EXCEPT ![p] = FileOf(b64decode(content_b64))] ]

\* DELETE <path> {sha}: removes the file when the token is its current one.
StoreDelete(s, p, sha) ==
    IF ~IsFileAt(s, p) THEN
        [ resp |-> ErrorResponse("404", << "Not Found" >>), store |-> s ]
    ELSE IF sha # ShaOf(s[p].content) THEN
        [ resp |-> ErrorResponse("409", << "sha does not match" >>), store |-> s ]
    ELSE
        [ resp |-> [ status |-> "200", body |-> EmptyBody ],
          store |-> [s EXCEPT ![p] = NoFile] ]

\* Transport, authorization and server failures: the request has no effect
\* and the answer carries whatever message text the remote side chooses.
RemoteMessages ==
    { << "Server Error" >>, << "Branch ", "not found" >>, << "Success", " rate exceeded" >> }
FaultResponses == { ErrorResponse("500", m) : m \in RemoteMessages }

\* ------------------------------------------------------- the client's values
\* What a method returns or raises.  A status string is `text` (with `data`
\* the second element of the returned pair, when there is one); get_file's
\* text content is `chars`, list_dir's list is `entries`, is_file's answer is
\* `type` ("" for None).
NoData == [none |-> TRUE, body |-> EmptyBody]
DataOf(body) == [none |-> FALSE, body |-> body]
NoOutcome ==
    [ kind |-> "none", form |-> "", text |-> <<>>, chars |-> <<>>, entries |-> <<>>,
      type |-> "", data |-> NoData, exc |-> "" ]
Status(text, data) ==
    [NoOutcome EXCEPT !.kind = "return", !.form = "status", !.text = text, !.data = data]
Raise(exc) == [NoOutcome EXCEPT !.kind = "raise", !.exc = exc]

\* response.json().get('message', 'Unknown Error')
JsonMessage(body) == IF body.message = <<>> THEN << "Unknown Error" >> ELSE body.message

\* ------------------------------------------------------------ GitHubAPI
\* _get_sha: the 'sha' of a 200 answer, None otherwise; a directory listing
\* (a list) has no .get and raises.
_get_sha(response) ==
    IF response.status = "200" THEN
        IF response.body.isList THEN [raised |-> TRUE, sha |-> NoSha]
        ELSE [raised |-> FALSE, sha |-> response.body.sha]
    ELSE [raised |-> FALSE, sha |-> NoSha]

\* get_file, lines 34-35: the bytes the answer's content decodes to.
get_file_content(response) == b64decode(response.body.content)

\* get_file with local_path=None.
get_file(targetfile, response) ==
    IF response.status = "200" THEN
        IF response.body.isList THEN Raise("AttributeError")
        ELSE IF response.body.type = "file" THEN
            IF Utf8Valid(get_file_content(response))
            THEN [NoOutcome EXCEPT !.kind = "return", !.form = "content",
                                   !.chars = Utf8Decode(get_file_content(response))]
            ELSE Raise("UnicodeDecodeError")
        ELSE Status(<< "Error: " >> \o PathText(targetfile) \o << " is not a file." >>, NoData)
    ELSE IF response.status = "404" THEN
        Status(<< "Error: " >> \o PathText(targetfile) \o << " ", "not found", " (404)." >>, NoData)
    ELSE Status(<< "Error: ", "Failed to fetch file. Status Code: ", response.status >>, NoData)

\* set_file, lines 59-64: the payload's content, for str and for bytes.
ContentAccepted(content) == content.t \in {"str", "bytes"}
content_base64(content) ==
    IF content.t = "str" THEN b64encode(Utf8Encode(content.v)) ELSE b64encode(content.v)
BadContent == Status(<< "Error: ", "Content must be string or bytes." >>, NoData)

\* set_file, lines 76-78.
set_file_result(response) ==
    IF response.status \in {"200", "201"} THEN Status(<< "Success" >>, DataOf(response.body))
    ELSE Status(<< "Error: ", "Failed operation. Status Code: ", response.status, " - " >>
                    \o JsonMessage(response.body), NoData)

\* del_file, lines 85-86 and 95-97.
del_file_no_sha(targetfile) ==
    Status(<< "Error: " >> \o PathText(targetfile)
               \o << " ", "not found", " or SHA not retrieved." >>, NoData)
del_file_result(response) ==
    IF response.status = "200" THEN Status(<< "Success" >>, DataOf(response.body))
    ELSE Status(<< "Error: ", "Failed to delete file. Status Code: ", response.status, " - " >>
                    \o JsonMessage(response.body), NoData)

RECURSIVE NameTypes(_)
NameTypes(items) ==
    IF Len(items) = 0 THEN <<>>
    ELSE << [name |-> items[1].name, type |-> items[1].type] >> \o NameTypes(Tail(items))

list_dir(targetdir, response) ==
    IF response.status = "200" THEN
        IF response.body.isList
        THEN [NoOutcome EXCEPT !.kind = "return", !.form = "entries",
                               !.entries = NameTypes(response.body.entries)]
        ELSE Status(<< "Error: " >> \o PathText(targetdir) \o << " is not a directory." >>, NoData)
    ELSE IF response.status = "404" THEN
        Status(<< "Error: ", "Directory " >> \o PathText(targetdir)
                   \o << " ", "not found", " (404)." >>, NoData)
    ELSE Status(<< "Error: ", "Directory listing failed. Status Code: ", response.status >>, NoData)

is_file(response) ==
    [NoOutcome EXCEPT !.kind = "return", !.form = "type",
                      !.type = IF response.status = "200"
                               THEN (IF response.body.isList THEN "dir" ELSE response.body.type)
                               ELSE ""]

\* create_dir / del_dir: f"{targetdir.rstrip('/')}/.gitkeep" (targetdir not empty).
marker_path(targetdir) == Append(rstrip(targetdir), ".gitkeep")
MarkerContent == [t |-> "str", v |-> << 32 >>]

\* A create_dir that trusts the status string alone.
create_dir_result_unchecked(targetdir, out) ==
    IF Contains(out.text, "Success")
    THEN Status(<< "Success" >>, out.data)
    ELSE Status(<< "Error: ", "Directory creation failed: " >> \o out.text, out.data)

create_dir_result(targetdir, out) ==
    IF Contains(out.text, "Success") /\ ~out.data.none /\ out.data.body.ctype = "file"
    THEN Status(<< "Success" >>, out.data)
    ELSE Status(<< "Error: ", "Directory creation failed: " >> \o out.text, out.data)

del_dir_result(targetdir, out) ==
    IF Contains(out.text, "Success") THEN Status(<< "Success" >>, out.data)
    ELSE IF Contains(out.text, "not found") THEN
        Status(<< "Info: ", ".gitkeep in " >> \o PathText(targetdir)
                   \o << " ", "not found", ". Directory might be empty." >>, out.data)
    ELSE Status(<< "Error: ", "Directory deletion failed: " >> \o out.text, out.data)

\* move_file, lines 152-160: the answer to the GET of old_path.
move_fetch(old_path, response_old) ==
    IF response_old.status # "200" THEN
        Status(<< "Error: ", "Failed to fetch old file content. Status Code: ",
                  response_old.status >>, NoData)
    ELSE IF response_old.body.isList THEN Raise("AttributeError")
    ELSE IF response_old.body.type # "file" THEN
        Status(<< "Error: " >> \o PathText(old_path) \o << " is not a file." >>, NoData)
    ELSE NoOutcome
\* A move_file that reads the content under a key the answer does not hold.
content_bytes_wrong_key(response_old) == [t |-> "bytes", v |-> b64decode(<<>>)]

content_bytes(response_old) == [t |-> "bytes", v |-> b64decode(response_old.body.content)]

\* move_file, lines 166-167: whether the write counts as done.
move_write_ok(status_set) == Contains(status_set, "Success")
move_write_failed(status_set, data_set) ==
    Status(<< "Error: ", "Failed to create file at new path: " >> \o status_set, data_set)

\* move_file, lines 172-176.
move_result(old_path, new_path, status_del, data_set) ==
    IF ~Contains(status_del, "Success") THEN
        Status(<< "Warning: ", "File created at " >> \o PathText(new_path)
                   \o << ", but failed to delete old file " >> \o PathText(old_path)
                   \o << ". Delete manually. Error: " >> \o status_del, data_set)
    ELSE Status(<< "Success", ": File moved from " >> \o PathText(old_path)
                    \o << " to " >> \o PathText(new_path), data_set)

\* -------------------------------------------------------------- the calls
NoContent == [t |-> "none", v |-> <<>>]
\* What a caller passes as content: bytes read from a local file, or a value
\* that is neither bytes nor str (create_dir is the caller that passes a str).
BytesContents == {[t |-> "bytes", v |-> b] : b \in Payloads}
Contents == BytesContents \cup {[t |-> "other", v |-> <<>>]}

CallOf(op, path, path2, content) ==
    [op |-> op, path |-> path, path2 |-> path2, content |-> content]
NoCall == CallOf("", <<>>, <<>>, NoContent)
SetFileCalls(P, K) == {CallOf("set_file", p, <<>>, k) : p \in P, k \in K}
DelFileCalls(P) == {CallOf("del_file", p, <<>>, NoContent) : p \in P}
AllCalls ==
    {CallOf("get_file", p, <<>>, NoContent) : p \in Paths}
        \cup {CallOf("is_file", p, <<>>, NoContent) : p \in Paths}
        \cup {CallOf("list_dir", p, <<>>, NoContent) : p \in ListArgs}
        \cup SetFileCalls(Paths, Contents) \cup DelFileCalls(Paths)
        \cup {CallOf("create_dir", d, <<>>, NoContent) : d \in DirArgs}
        \cup {CallOf("del_dir", d, <<>>, NoContent) : d \in DirArgs}
        \cup {CallOf("move_file", p, q, NoContent) : p \in Paths, q \in Paths}

\* ------------------------------------------------------------------- state
Clients == {"main", "other"}

VARIABLES
    store,   \* the remote repository: path -> file
    pc,      \* per client: the request its current call is about to send
    call,    \* per client: the method called and its arguments
    loc,     \* per client: the local variables that live across requests
    result,  \* per client: what the last call returned or raised
    log,     \* per client: the requests the current call has sent, with the status answered
    pre,     \* per client: the store as it was when the current call began
    calls    \* number of calls made so far

vars == << store, pc, call, loc, result, log, pre, calls >>

NoStore == [p \in Paths |-> NoFile]
RacePaths == { <<"a", "b">> }
NoLocals == [target |-> <<>>, content |-> NoContent, sha |-> NoSha, set_out |-> NoOutcome]

Init ==
    /\ store \in Stores
    /\ pc = [c \in Clients |-> "idle"]
    /\ call = [c \in Clients |-> NoCall]
    /\ loc = [c \in Clients |-> NoLocals]
    /\ result = [c \in Clients |-> NoOutcome]
    /\ log = [c \in Clients |-> <<>>]
    /\ pre = [c \in Clients |-> NoStore]
    /\ calls = 0

\* The concurrent runs start with at most the contended file in the store.
InitRace == Init /\ \A p \in Paths \ RacePaths : ~store[p].exists

\* Every request is answered from the store's state or with a failure.
Answers(genuine) == {genuine} \cup FaultResponses
Effects(genuine) == {genuine} \cup {[resp |-> f, store |-> store] : f \in FaultResponses}

Sent(c, method, path, response) ==
    log' = [log EXCEPT ![c] = Append(@, [method |-> method, path |-> path,
                                         status |-> response.status])]

\* The first request of each method, and the file the inner set_file /
\* del_file of a composite method works on.
FirstPc(op) ==
    CASE op = "get_file" -> "get_file"
      [] op = "is_file" -> "is_file"
      [] op = "list_dir" -> "list_dir"
      [] op \in {"set_file", "create_dir"} -> "get_sha"
      [] op \in {"del_file", "del_dir"} -> "del_sha"
      [] op = "move_file" -> "move_get"
FirstLocals(k) ==
    CASE k.op = "set_file" -> [NoLocals EXCEPT !.target = k.path, !.content = k.content]
      [] k.op = "create_dir" ->
            [NoLocals EXCEPT !.target = marker_path(k.path), !.content = MarkerContent]
      [] k.op = "del_file" -> [NoLocals EXCEPT !.target = k.path]
      [] k.op = "del_dir" -> [NoLocals EXCEPT !.target = marker_path(k.path)]
      [] OTHER -> NoLocals

Invoke(c, allowed) ==
    /\ pc[c] = "idle"
    /\ calls < MaxCalls
    /\ \E k \in allowed :
        /\ call' = [call EXCEPT ![c] = k]
        /\ pc' = [pc EXCEPT ![c] = FirstPc(k.op)]
        /\ loc' = [loc EXCEPT ![c] = FirstLocals(k)]
    /\ result' = [result EXCEPT ![c] = NoOutcome]
    /\ log' = [log EXCEPT ![c] = <<>>]
    /\ pre' = [pre EXCEPT ![c] = store]
    /\ calls' = calls + 1
    /\ UNCHANGED store

\* The call of client c moves on: to its next request, or it ends with `out`.
Goes(c, nextpc, locals, out) ==
    /\ pc' = [pc EXCEPT ![c] = nextpc]
    /\ loc' = [loc EXCEPT ![c] = locals]
    /\ result' = [result EXCEPT ![c] = out]
Ends(c, out) == Goes(c, "done", NoLocals, out)

GetFile(c) ==
    /\ pc[c] = "get_file"
    /\ \E response \in Answers(StoreGet(store, call[c].path)) :
        /\ Ends(c, get_file(call[c].path, response))
        /\ Sent(c, "GET", call[c].path, response)
    /\ UNCHANGED << store, call, pre, calls >>

IsFile(c) ==
    /\ pc[c] = "is_file"
    /\ \E response \in Answers(StoreGet(store, call[c].path)) :
        /\ Ends(c, is_file(response))
        /\ Sent(c, "GET", call[c].path, response)
    /\ UNCHANGED << store, call, pre, calls >>

ListDir(c) ==
    /\ pc[c] = "list_dir"
    /\ \E response \in Answers(StoreGet(store, call[c].path)) :
        /\ Ends(c, list_dir(call[c].path, response))
        /\ Sent(c, "GET", call[c].path, response)
    /\ UNCHANGED << store, call, pre, calls >>

\* What the caller of set_file does with what it returned: set_file's own
\* caller gets it, create_dir checks it, move_file goes on to del_file(old_path)
\* or gives up.
after_set_file(k, locals, out) ==
    CASE k.op = "set_file" -> [pc |-> "done", loc |-> NoLocals, result |-> out]
      [] k.op = "create_dir" ->
            [pc |-> "done", loc |-> NoLocals, result |-> create_dir_result(k.path, out)]
      [] k.op = "move_file" ->
            IF move_write_ok(out.text)
            THEN [pc |-> "del_sha",
                  loc |-> [NoLocals EXCEPT !.target = k.path, !.set_out = out],
                  result |-> NoOutcome]
            ELSE [pc |-> "done", loc |-> NoLocals,
                  result |-> move_write_failed(out.text, out.data)]

after_del_file(k, locals, out) ==
    CASE k.op = "del_file" -> [pc |-> "done", loc |-> NoLocals, result |-> out]
      [] k.op = "del_dir" ->
            [pc |-> "done", loc |-> NoLocals, result |-> del_dir_result(k.path, out)]
      [] k.op = "move_file" ->
            [pc |-> "done", loc |-> NoLocals,
             result |-> move_result(k.path, k.path2, out.text, locals.set_out.data)]

\* set_file, line 57 to 64: the version token is fetched, then the content is encoded.
SetSha(c) ==
    /\ pc[c] = "get_sha"
    /\ \E response \in Answers(StoreGet(store, loc[c].target)) :
        /\ Sent(c, "GET", loc[c].target, response)
        /\ LET got == _get_sha(response)
               next == after_set_file(call[c], loc[c], BadContent)
           IN  IF got.raised THEN Ends(c, Raise("AttributeError"))
               ELSE IF ~ContentAccepted(loc[c].content)
                    THEN Goes(c, next.pc, next.loc, next.result)
               ELSE Goes(c, "put", [loc[c] EXCEPT !.sha = got.sha], NoOutcome)
    /\ UNCHANGED << store, call, pre, calls >>

\* A set_file that answers a conflict by fetching the token again and writing anew.
set_file_put_retrying(s, locals) ==
    LET first == StorePut(s, locals.target, content_base64(locals.content), locals.sha)
    IN  IF first.resp.status \in {"409", "422"}
        THEN StorePut(s, locals.target, content_base64(locals.content),
                      _get_sha(StoreGet(s, locals.target)).sha)
        ELSE first

\* set_file, line 66 to 74: the one PUT, with the token when there is one.
set_file_put(s, locals) ==
    StorePut(s, locals.target, content_base64(locals.content), locals.sha)

\* set_file, line 66 to 78.
Put(c) ==
    /\ pc[c] = "put"
    /\ \E effect \in Effects(set_file_put(store, loc[c])) :
        /\ store' = effect.store
        /\ Sent(c, "PUT", loc[c].target, effect.resp)
        /\ LET next == after_set_file(call[c], loc[c], set_file_result(effect.resp))
           IN  Goes(c, next.pc, next.loc, next.result)
    /\ UNCHANGED << call, pre, calls >>

\* del_file, line 83 to 86.
DelSha(c) ==
    /\ pc[c] = "del_sha"
    /\ \E response \in Answers(StoreGet(store, loc[c].target)) :
        /\ Sent(c, "GET", loc[c].target, response)
        /\ LET got == _get_sha(response)
               next == after_del_file(call[c], loc[c], del_file_no_sha(loc[c].target))
           IN  IF got.raised THEN Ends(c, Raise("AttributeError"))
               ELSE IF ~got.sha.some THEN Goes(c, next.pc, next.loc, next.result)
               ELSE Goes(c, "delete", [loc[c] EXCEPT !.sha = got.sha], NoOutcome)
    /\ UNCHANGED << store, call, pre, calls >>

\* del_file, line 88 to 97.
Delete(c) ==
    /\ pc[c] = "delete"
    /\ \E effect \in Effects(StoreDelete(store, loc[c].target, loc[c].sha)) :
        /\ store' = effect.store
        /\ Sent(c, "DELETE", loc[c].target, effect.resp)
        /\ LET next == after_del_file(call[c], loc[c], del_file_result(effect.resp))
           IN  Goes(c, next.pc, next.loc, next.result)
    /\ UNCHANGED << call, pre, calls >>

\* move_file, line 149 to 164: old_path is fetched; set_file(new_path, ...) follows.
MoveGet(c) ==
    /\ pc[c] = "move_get"
    /\ \E response \in Answers(StoreGet(store, call[c].path)) :
        /\ Sent(c, "GET", call[c].path, response)
        /\ IF move_fetch(call[c].path, response).kind # "none"
           THEN Ends(c, move_fetch(call[c].path, response))
           ELSE Goes(c, "get_sha",
                     [NoLocals EXCEPT !.target = call[c].path2,
                                      !.content = content_bytes(response)],
                     NoOutcome)
    /\ UNCHANGED << store, call, pre, calls >>

\* The caller has taken what the call returned (main's loop prints it and
\* goes back to the menu).
Return(c) ==
    /\ pc[c] = "done"
    /\ pc' = [pc EXCEPT ![c] = "idle"]
    /\ call' = [call EXCEPT ![c] = NoCall]
    /\ result' = [result EXCEPT ![c] = NoOutcome]
    /\ log' = [log EXCEPT ![c] = <<>>]
    /\ pre' = [pre EXCEPT ![c] = NoStore]
    /\ UNCHANGED << store, loc, calls >>

Step(c) ==
    \/ GetFile(c) \/ IsFile(c) \/ ListDir(c)
    \/ SetSha(c) \/ Put(c) \/ DelSha(c) \/ Delete(c) \/ MoveGet(c) \/ Return(c)

\* One client, alone with the store.
Next == Invoke("main", AllCalls) \/ Step("main")
Spec == Init /\ [][Next]_vars

\* Two clients writing and deleting the same file, their requests interleaved.
NextConcurrent ==
    \E c \in Clients :
        \/ Invoke(c, SetFileCalls(RacePaths, BytesContents) \cup DelFileCalls(RacePaths))
        \/ SetSha(c) \/ Put(c) \/ DelSha(c) \/ Delete(c) \/ Return(c)
SpecConcurrent == InitRace /\ [][NextConcurrent]_vars

\* ------------------------------------------------------------- properties
\* What a caller observes of the store as it stands: is_file's answer and the
\* bytes get_file decodes, both on the store's own answer.
entry_type(p) == is_file(StoreGet(store, p)).type
read(p) == get_file_content(StoreGet(store, p))

\* The leading word of a status string.
Tag(text) == IF Len(text) = 0 THEN "" ELSE text[1]

\* The current call of client c has sent `method` for `path` and got a status in S.
Answered(c, method, path, S) ==
    \E i \in 1..Len(log[c]) :
        log[c][i].method = method /\ log[c][i].path = path /\ log[c][i].status \in S
SentAny(c, method) == \E i \in 1..Len(log[c]) : log[c][i].method = method
Written == {"200", "201"}
Deleted == {"200"}
Statuses == {"200", "201", "404", "409", "422", "500"}

Finished(c, op) == pc[c] = "done" /\ call[c].op = op
Exists(s, p) == IsFileAt(s, p) \/ IsDirAt(s, p)

\* The store itself has answered every request of c's current call.
NoFailureAnswer(c) == \A i \in 1..Len(log[c]) : log[c][i].status # "500"

\* C1 as stated, read in its favour (no request of the call met a transport
\* or server failure): whenever move_file(x, y) has returned, for distinct x, y
\* with x a file and y not existing when it was called, entry_type(x) is
\* absent, entry_type(y) is file and read(y) is the content x had.
C1_MoveRelocates ==
    ( /\ Finished("main", "move_file")
      /\ call["main"].path # call["main"].path2
      /\ IsFileAt(pre["main"], call["main"].path)
      /\ ~Exists(pre["main"], call["main"].path2)
      /\ NoFailureAnswer("main") )
    => ( /\ entry_type(call["main"].path) = ""
         /\ entry_type(call["main"].path2) = "file"
         /\ read(call["main"].path2) = pre["main"][call["main"].path].content )

\* C1 amended: the same, for the calls whose write to y was answered 200/201
\* and whose delete of x was answered 200.
C1_MoveRelocatesWhenBothRequestsSucceed ==
    ( /\ Finished("main", "move_file")
      /\ call["main"].path # call["main"].path2
      /\ IsFileAt(pre["main"], call["main"].path)
      /\ ~Exists(pre["main"], call["main"].path2)
      /\ Answered("main", "PUT", call["main"].path2, Written)
      /\ Answered("main", "DELETE", call["main"].path, Deleted) )
    => ( /\ entry_type(call["main"].path) = ""
         /\ entry_type(call["main"].path2) = "file"
         /\ read(call["main"].path2) = pre["main"][call["main"].path].content )

\* A move of a non-empty file to a free path, written and deleted.
C1_Witness ==
    /\ Finished("main", "move_file")
    /\ call["main"].path # call["main"].path2
    /\ IsFileAt(pre["main"], call["main"].path)
    /\ pre["main"][call["main"].path].content # <<>>
    /\ ~Exists(pre["main"], call["main"].path2)
    /\ Answered("main", "PUT", call["main"].path2, Written)
    /\ Answered("main", "DELETE", call["main"].path, Deleted)
    /\ Tag(result["main"].text) = "Success"

\* C2: in move_file, whenever the write to new_path was answered with a
\* failure status, the call has reported an error, has sent no DELETE, and
\* old_path still holds what it held.
C2_FailedWriteAborts ==
    ( /\ Finished("main", "move_file")
      /\ Answered("main", "PUT", call["main"].path2, Statuses \ Written) )
    => ( /\ Tag(result["main"].text) = "Error: "
         /\ ~SentAny("main", "DELETE")
         /\ store[call["main"].path] = pre["main"][call["main"].path] )

\* C3: in move_file, whenever the write succeeded and the delete did not, the
\* outcome is the partial failure (neither the success nor an error), and both
\* new_path and old_path hold the content.
C3_PartialFailureIsDistinct ==
    ( /\ Finished("main", "move_file")
      /\ Answered("main", "PUT", call["main"].path2, Written)
      /\ ~Answered("main", "DELETE", call["main"].path, Deleted) )
    => ( /\ Tag(result["main"].text) = "Warning: "
         /\ IsFileAt(store, call["main"].path)
         /\ IsFileAt(store, call["main"].path2)
         /\ store[call["main"].path].content = pre["main"][call["main"].path].content
         /\ store[call["main"].path2].content = pre["main"][call["main"].path].content )

\* C4: whenever set_file(p, c) with a bytes payload c has succeeded,
\* get_file(p) returns text, and that text is c.
C4_RoundTrip ==
    ( /\ Finished("main", "set_file")
      /\ call["main"].content.t = "bytes"
      /\ Answered("main", "PUT", call["main"].path, Written) )
    => LET got == get_file(call["main"].path, StoreGet(store, call["main"].path))
       IN  /\ got.kind = "return"
           /\ got.form = "content"
           /\ Utf8Encode(got.chars) = call["main"].content.v

\* The token a request carries is the one the store holds for the path now.
TokenCurrent(s, p, sha) == IF s[p].exists THEN sha = ShaOf(s[p].content) ELSE ~sha.some
PutsSent(c) == Cardinality({i \in 1..Len(log[c]) : log[c][i].method = "PUT"})
C5_StaleTokenStep ==
    /\ \A c \in Clients :
          ( /\ pc[c] = "put"
            /\ pc'[c] # "put"
            /\ ~TokenCurrent(store, loc[c].target, loc[c].sha) )
          => ( /\ store' = store
               /\ pc'[c] = "done"
               /\ Tag(result'[c].text) = "Error: "
               /\ PutsSent(c)' = 1 )
    /\ \A p \in Paths :
          store'[p] # store[p]
          => \E c \in Clients :
                 /\ pc[c] \in {"put", "delete"}
                 /\ pc'[c] # pc[c]
                 /\ loc[c].target = p
                 /\ TokenCurrent(store, p, loc[c].sha)

\* C5: under every interleaving of two clients' calls on one path, a PUT of
\* set_file that carries a version token which is not the store's current one
\* (or none while the file exists) changes nothing in the store and ends the
\* call, after that one PUT, with an error; and no step changes a file unless
\* the client taking it carries the file's current token.
C5_StaleWriteRejected == [][C5_StaleTokenStep]_vars

\* A set_file whose PUT was refused for its token, on a file the other client
\* has changed since the call began.
C5_Witness ==
    \E c \in Clients :
        /\ Finished(c, "set_file")
        /\ Answered(c, "PUT", call[c].path, {"409", "422"})
        /\ store[call[c].path] # pre[c][call[c].path]
        /\ store[call[c].path].exists

\* C6: get_file on a path that names a directory (answered 200 with a
\* listing) returns the "is not a file" error value.
C6_DirectoryIsNotAFile ==
    ( /\ Finished("main", "get_file")
      /\ IsDirAt(pre["main"], call["main"].path)
      /\ Answered("main", "GET", call["main"].path, {"200"}) )
    => result["main"] =
           Status(<< "Error: " >> \o PathText(call["main"].path) \o << " is not a file." >>,
                  NoData)

\* C7: del_file on a path that is not an existing file returns the not-found
\* error value, sends no DELETE and leaves the store as it was.
C7_DeleteOfNoFile ==
    ( /\ Finished("main", "del_file")
      /\ ~IsFileAt(pre["main"], call["main"].path) )
    => ( /\ result["main"] = del_file_no_sha(call["main"].path)
         /\ ~SentAny("main", "DELETE")
         /\ store = pre["main"] )

\* C8: del_dir returns Info exactly when del_file gave up for want of a
\* version token (no DELETE sent), Success exactly when the DELETE was
\* answered 200, and an error for every other answer to the DELETE.
C8_DelDirOutcome ==
    Finished("main", "del_dir")
    => ( /\ Tag(result["main"].text) = "Info: " <=> ~SentAny("main", "DELETE")
         /\ Tag(result["main"].text) = "Success"
                <=> Answered("main", "DELETE", marker_path(call["main"].path), Deleted)
         /\ Answered("main", "DELETE", marker_path(call["main"].path), Statuses \ Deleted)
                => Tag(result["main"].text) = "Error: " )

\* "a/b" is the parent a and the name b.
ParentOf(targetdir) == SubSeq(rstrip(targetdir), 1, Len(rstrip(targetdir)) - 1)
NameOf(targetdir) == rstrip(targetdir)[Len(rstrip(targetdir))]

\* C9: whenever create_dir("a/b") has returned Success, list_dir("a") (on the
\* store's answer) returns a list that holds an entry named b of type dir.
C9_CreatedDirIsListed ==
    ( /\ Finished("main", "create_dir")
      /\ result["main"].text = << "Success" >> )
    => LET listed == list_dir(ParentOf(call["main"].path),
                              StoreGet(store, ParentOf(call["main"].path)))
       IN  /\ listed.form = "entries"
           /\ \E i \in 1..Len(listed.entries) :
                  listed.entries[i] = [name |-> NameOf(call["main"].path), type |-> "dir"]

\* create_dir("a/b") (with or without a trailing slash) has returned Success.
C9_Witness ==
    /\ Finished("main", "create_dir")
    /\ result["main"].text = << "Success" >>
    /\ ParentOf(call["main"].path) = << "a" >>
    /\ ~Exists(pre["main"], rstrip(call["main"].path))

\* C10, for the calls whose every request the store itself answered:
\* whenever move_file has returned, what old_path held is still at old_path or
\* at new_path; and when it returned Success, it is at new_path.
C10_MoveLosesNothing ==
    ( /\ Finished("main", "move_file")
      /\ IsFileAt(pre["main"], call["main"].path)
      /\ NoFailureAnswer("main") )
    => LET held == FileOf(pre["main"][call["main"].path].content)
       IN  /\ store[call["main"].path] = held \/ store[call["main"].path2] = held
           /\ Tag(result["main"].text) = "Success" => store[call["main"].path2] = held

====
